---- MODULE Spec2Model ----
(***************************************************************************)
(* Model of the derivatives sorter of slabpreproc                          *)
(* (slabpreproc/interfaces/derivatives.py, DerivativesSorter) and of the   *)
(* rule tables it is run with (slabpreproc/workflows/derivatives_wf.py).   *)
(*                                                                         *)
(* A character string is a sequence of atoms (short pieces of text); a     *)
(* path is a sequence of components, each component a string.  The string  *)
(* functions the sorter uses (str.replace, os.path.splitext, the entity    *)
(* regular expressions of pybids) are computed on those sequences.         *)
(***************************************************************************)
EXTENDS Integers, Sequences, FiniteSets, TLC

\* ------------------------------------------------------------------ bounds
MaxFiles == 2
MaxRuns == 2
MaxMaps == 2

\* ----------------------------------------------------------------- strings
\* Atoms that begin with a dot
DotAtoms == {".nii", ".gz", ".5", ".txt", ".csv", ".ica", ".pklz"}

\* Atoms made of letters and digits only ([a-zA-Z0-9+]+ of the pybids patterns)
WordAtoms == {"01", "02", "1", "2", "rest", "bold", "tmean", "tsd", "melodic", "out",
              "labels", "log", "report", "node", "stats"}

Min(a, b) == IF a < b THEN a ELSE b

EndsWith(s, e) == Len(e) <= Len(s) /\ SubSeq(s, Len(s) - Len(e) + 1, Len(s)) = e

\* Python's "x in s" for strings: x occurs as a contiguous piece of s
Contains(s, x) ==
    \E k \in 1..(Len(s) - Len(x) + 1) : SubSeq(s, k, k + Len(x) - 1) = x

\* Python's s.replace(old, new): every non-overlapping occurrence, left to right
RECURSIVE str_replace(_, _, _)
str_replace(s, old, new) ==
    IF Len(s) < Len(old) \/ Len(old) = 0 THEN s
    ELSE IF SubSeq(s, 1, Len(old)) = old
         THEN new \o str_replace(SubSeq(s, Len(old) + 1, Len(s)), old, new)
         ELSE <<Head(s)>> \o str_replace(Tail(s), old, new)

\* os.path.splitext: split at the last dot that is not a leading dot
DotPositions(s) == {k \in 2..Len(s) : s[k] \in DotAtoms}

LastDot(s) == CHOOSE k \in DotPositions(s) : \A m \in DotPositions(s) : m <= k

splitext(s) ==
    IF DotPositions(s) = {} THEN <<s, <<>> >>
    ELSE <<SubSeq(s, 1, LastDot(s) - 1), SubSeq(s, LastDot(s), Len(s))>>

\* os.path.basename / os.path.join on component sequences
basename(p) == p[Len(p)]

join(d, name) == Append(d, name)

\* ---------------------------------------------------------- entity parser
\* bids.layout.parse_file_entities: one regular expression per entity,
\* first match wins; an entity whose pattern does not match is absent
\* from the returned dict.
SubjectPos(b) == {k \in 1..(Len(b) - 1) : k = 1 /\ b[k] = "sub-" /\ b[k + 1] \in WordAtoms}

SessionPos(b) ==
    {k \in 1..(Len(b) - 1) :
        /\ b[k] = "ses-"
        /\ (k = 1 \/ b[k - 1] = "_")
        /\ b[k + 1] \in WordAtoms}

SuffixPos(b) ==
    {k \in 1..(Len(b) - 1) :
        /\ b[k] \in WordAtoms
        /\ (k = 1 \/ b[k - 1] = "_")
        /\ b[k + 1] \in DotAtoms}

ExtensionPos(b) == {k \in 2..Len(b) : b[k] \in DotAtoms /\ b[k - 1] \notin DotAtoms}

First(S) == CHOOSE k \in S : \A m \in S : k <= m

EntityFn(name, b) ==
    CASE name = "subject" -> <<b[First(SubjectPos(b)) + 1]>>
      [] name = "session" -> <<b[First(SessionPos(b)) + 1]>>
      [] name = "suffix" -> <<b[First(SuffixPos(b))]>>
      [] name = "extension" -> SubSeq(b, First(ExtensionPos(b)), Len(b))

EntityNames == {"subject", "session", "suffix", "extension"}

Matched(b) ==
    {n \in EntityNames :
        CASE n = "subject" -> SubjectPos(b) # {}
          [] n = "session" -> SessionPos(b) # {}
          [] n = "suffix" -> SuffixPos(b) # {}
          [] n = "extension" -> ExtensionPos(b) # {}}

\* A parser that fills a missing entity with the empty string
parse_file_entities_default(fname) ==
    [n \in EntityNames |->
        IF n \in Matched(basename(fname)) THEN EntityFn(n, basename(fname)) ELSE <<>>]

parse_file_entities(fname) ==
    [n \in Matched(basename(fname)) |-> EntityFn(n, basename(fname))]

\* ------------------------------------------------------------------ inputs
\* Source BOLD images of the dataset
SrcDir == << <<"bids">> >>

SourceNames ==
    { <<"sub-", "01", "_", "ses-", "1", "_", "task-", "rest", "_", "bold", ".nii", ".gz">>,
      <<"sub-", "01", "_", "ses-", "1", "_", "task-", "rest", "_", "bold", ".nii">>,
      <<"sub-", "01", "_", "ses-", "1", "_", "task-", "bold", "_", "bold", ".nii", ".gz">>,
      <<"sub-", "01", "_", "ses-", "1", "_", "acq-", "1", ".5", "_", "bold", ".nii">>,
      <<"sub-", "01", "_", "task-", "rest", "_", "bold", ".nii", ".gz">>,
      <<"ses-", "1", "_", "task-", "rest", "_", "bold", ".nii", ".gz">> }

SourceFiles == {join(SrcDir, b) : b \in SourceNames}

\* Sort rules: records with the keys of a sorting dict.  The input accepts
\* any dict, so the set holds rules of the shipped table and rules that
\* combine the same values differently.
FileRules ==
    { [DataType |-> <<"qc">>, NewSuffix |-> <<"recon-", "tmean", "_", "bold">>, FileType |-> <<"Image">>],
      [DataType |-> <<"qc">>, NewSuffix |-> <<"recon-", "tmean", "_", "bold">>, FileType |-> <<"Text">>],
      [DataType |-> <<"qc">>, NewSuffix |-> <<"recon-", "tmean", "_", "bold">>, FileType |-> <<"CSV">>],
      [DataType |-> <<"qc">>, NewSuffix |-> <<>>, FileType |-> <<"Image">>],
      [DataType |-> <<"atlas">>, NewSuffix |-> <<>>, FileType |-> <<"Image">>],
      [DataType |-> <<"atlas">>, NewSuffix |-> <<"recon-", "tmean", "_", "bold">>, FileType |-> <<"Text">>] }

\* Working directory of the pipeline: the artifacts of the upstream stages
Art1 == << <<"work">>, <<"n1">>, <<"out", ".nii", ".gz">> >>
Art2 == << <<"work">>, <<"n2">>, <<"out", ".nii", ".gz">> >>
Art3 == << <<"work">>, <<"n3">>, <<"stats", ".txt">> >>
FileArtifacts == {Art1, Art2, Art3}

Mel == << <<"work">>, <<"melodic">> >>

\* Lists the folder inputs are drawn from
FolderLists == { <<>>, <<Mel>> }

FolderRuleLists ==
    { <<>>, <<[DataType |-> <<"melodic">>, NewSuffix |-> <<"melodic", ".ica">>, FileType |-> <<"Folder">>]>> }

WorkFiles ==
    (Art1 :> "c1") @@ (Art2 :> "c2") @@ (Art3 :> "c3")
    @@ (Append(Mel, <<"melodic", "_", "IC", ".nii", ".gz">>) :> "ic")
    @@ (Append(Mel, <<"_", "node", ".pklz">>) :> "pk1")
    @@ (Append(Mel, <<"result", ".pklz">>) :> "pk2")
    @@ (Append(Append(Mel, <<"_", "report">>), <<"log">>) :> "lg")
    @@ (Append(Append(Mel, <<"stats">>), <<"stats", ".txt">>) :> "st")

WorkDirs ==
    { << <<"work">> >>, << <<"work">>, <<"n1">> >>, << <<"work">>, <<"n2">> >>,
      << <<"work">>, <<"n3">> >>, Mel, Append(Mel, <<"_", "report">>), Append(Mel, <<"stats">>) }

\* Sequences of length 0..n over S
SeqUpTo(S, n) == UNION {[1..k -> S] : k \in 0..n}

\* Sequences of length 0..n over S without repetition
InjSeqUpTo(S, n) == {q \in SeqUpTo(S, n) : \A a, b \in 1..Len(q) : a # b => q[a] # q[b]}

\* -------------------------------------------------------------- filesystem
\* A tree is [dirs : set of paths, files : path -> content]
deriv_dir == << <<"derivatives">> >>

EmptyTree == [dirs |-> {deriv_dir}, files |-> <<>>]

Prefixes(p) == {SubSeq(p, 1, k) : k \in 1..Len(p)}

IsUnder(d, p) == Len(d) <= Len(p) /\ SubSeq(p, 1, Len(d)) = d

\* os.makedirs that refuses an existing directory (exist_ok=False)
makedirs_exclusive(t, p) ==
    IF p \in t.dirs \/ \E q \in Prefixes(p) : q \in DOMAIN t.files
    THEN [err |-> "FileExistsError", tree |-> t]
    ELSE [err |-> "", tree |-> [t EXCEPT !.dirs = @ \cup Prefixes(p)]]

\* os.makedirs(p, exist_ok=True)
makedirs(t, p) ==
    IF \E q \in Prefixes(p) : q \in DOMAIN t.files
    THEN [err |-> "FileExistsError", tree |-> t]
    ELSE [err |-> "", tree |-> [t EXCEPT !.dirs = @ \cup Prefixes(p)]]

\* A copy that refuses an existing destination (open(dst, 'xb'))
copyfile_noclobber(w, t, src, dst) ==
    IF src \notin DOMAIN w.files THEN [err |-> "FileNotFoundError", tree |-> t]
    ELSE IF dst \in t.dirs THEN [err |-> "IsADirectoryError", tree |-> t]
    ELSE IF dst \in DOMAIN t.files THEN [err |-> "FileExistsError", tree |-> t]
    ELSE [err |-> "", tree |-> [t EXCEPT !.files = (dst :> w.files[src]) @@ @]]

\* shutil.copyfile(src, dst): dst is opened for writing and overwritten
copyfile(w, t, src, dst) ==
    IF src \notin DOMAIN w.files THEN [err |-> "FileNotFoundError", tree |-> t]
    ELSE IF dst \in t.dirs THEN [err |-> "IsADirectoryError", tree |-> t]
    ELSE [err |-> "", tree |-> [t EXCEPT !.files = (dst :> w.files[src]) @@ @]]

\* A move: the source file is gone after the transfer (shutil.move)
work_after_move(w, src) ==
    [w EXCEPT !.files = [f \in (DOMAIN w.files) \ {src} |-> w.files[f]]]

\* shutil.copyfile and shutil.copytree open their source for reading only:
\* the working directory is as it was
work_after_copy(w, src) == w

\* shutil.copytree(src, dst, dirs_exist_ok=True): every entry below src is
\* copied to the same relative place below dst; entries that cannot be
\* written are skipped and reported together at the end (shutil.Error)
Reloc(src, dst, p) == dst \o SubSeq(p, Len(src) + 1, Len(p))

\* Nipype auxiliary entries of a folder: '_*' and '*.pklz' at its top level
IsAuxName(name) == name[1] = "_" \/ name[Len(name)] = ".pklz"

IsAuxEntry(src, p) == Len(p) > Len(src) /\ IsUnder(src, p) /\ IsAuxName(p[Len(src) + 1])

\* A tree copy that leaves the auxiliary entries out
copytree_scrub(w, t, src, dst) ==
    LET srcDirs == {d \in w.dirs : IsUnder(src, d) /\ ~IsAuxEntry(src, d)}
        srcFiles == {f \in DOMAIN w.files : IsUnder(src, f) /\ ~IsAuxEntry(src, f)}
        newDirs == UNION {Prefixes(Reloc(src, dst, d)) : d \in srcDirs}
        newFiles == [q \in {Reloc(src, dst, f) : f \in srcFiles} |->
                        w.files[CHOOSE f \in srcFiles : Reloc(src, dst, f) = q]]
    IN  IF src \notin w.dirs THEN [err |-> "FileNotFoundError", tree |-> t]
        ELSE [err |-> "", tree |-> [dirs |-> t.dirs \cup newDirs, files |-> newFiles @@ t.files]]

copytree(w, t, src, dst) ==
    LET srcDirs == {d \in w.dirs : IsUnder(src, d)}
        srcFiles == {f \in DOMAIN w.files : IsUnder(src, f)}
        badDirs == {d \in srcDirs : \E q \in Prefixes(Reloc(src, dst, d)) : q \in DOMAIN t.files}
        okDirs == {d \in srcDirs : \A b \in badDirs : ~IsUnder(b, d)}
        badFiles == {f \in srcFiles : Reloc(src, dst, f) \in t.dirs}
        okFiles == {f \in srcFiles : f \notin badFiles /\ \A b \in badDirs : ~IsUnder(b, f)}
        newDirs == UNION {Prefixes(Reloc(src, dst, d)) : d \in okDirs}
        newFiles == [q \in {Reloc(src, dst, f) : f \in okFiles} |->
                        w.files[CHOOSE f \in okFiles : Reloc(src, dst, f) = q]]
    IN  IF src \notin w.dirs THEN [err |-> "FileNotFoundError", tree |-> t]
        ELSE IF src \in badDirs THEN [err |-> "FileExistsError", tree |-> t]
        ELSE [err |-> IF badDirs # {} \/ badFiles # {} THEN "Error" ELSE "",
              tree |-> [dirs |-> t.dirs \cup newDirs, files |-> newFiles @@ t.files]]

\* ------------------------------------------------------------------- state
VARIABLES
    source_file,        \* inputs.source_file
    file_list,          \* inputs.file_list
    file_sort_dicts,    \* inputs.file_sort_dicts
    folder_list,        \* inputs.folder_list
    folder_sort_dicts,  \* inputs.folder_sort_dicts
    work,               \* the working directory holding the artifacts
    tree,               \* the filesystem below (and including) deriv_dir
    pc,                 \* position of _run_interface
    i,                  \* index of the pair the current loop is at
    loc,                \* locals set before the loops (lines 86-103)
    err,                \* exception that ended the last call, "" if none
    runs,               \* number of calls of _run_interface so far
    copies,             \* copies completed by the current call, in order
    returned,           \* the tree at each normal return, in order
    log,                \* every copy completed by any call so far
    mk,                 \* os.makedirs calls in progress in concurrent sorter processes
    seepiref            \* the SEEPIRef node: its inputs and the position of _list_outputs

\* The SEEPIRef node before its inputs are set: _outputs().get() gives
\* every output trait as Undefined
NoSEEPIRef ==
    [seepi_mag |-> <<>>, seepi_meta |-> <<>>, sbref_meta |-> [EchoTime |-> "t"],
     pc |-> "idle", fc |-> 0, sbref_pe_dir |-> "",
     outputs |-> [seepi_mag_ref |-> "Undefined"], err |-> ""]

\* Sorter processes that may run at the same time (one per workflow run)
Procs == {1, 2}

\* No os.makedirs call is in progress
NoMakedirs ==
    [tree0 |-> EmptyTree,
     proc |-> [p \in Procs |-> [pc |-> "idle", target |-> <<>>, k |-> 0,
                                found |-> FALSE, err |-> ""]]]

inputs == <<source_file, file_list, file_sort_dicts, folder_list, folder_sort_dicts>>

vars == <<source_file, file_list, file_sort_dicts, folder_list, folder_sort_dicts,
          work, tree, pc, i, loc, err, runs, copies, returned, log, mk, seepiref>>

NoLocals == [subj_id |-> <<>>, sess_id |-> <<>>, old_suffix |-> <<>>, old_ext |-> <<>>,
             source_bname |-> <<>>]

\* The artifacts exist when the inputs are set (exists=True); one of them may
\* have been removed from the working directory before the sorter runs
WorkStates ==
    { [dirs |-> WorkDirs, files |-> WorkFiles],
      [dirs |-> WorkDirs, files |-> [f \in (DOMAIN WorkFiles) \ {Art3} |-> WorkFiles[f]]] }

Init ==
    /\ source_file \in SourceFiles
    /\ file_list \in InjSeqUpTo(FileArtifacts, MaxFiles)
    /\ file_sort_dicts \in SeqUpTo(FileRules, MaxFiles)
    /\ folder_list \in FolderLists
    /\ folder_sort_dicts \in FolderRuleLists
    /\ work \in WorkStates
    /\ tree = EmptyTree
    /\ pc = "ready"
    /\ i = 1
    /\ loc = NoLocals
    /\ err = ""
    /\ runs = 0
    /\ copies = <<>>
    /\ returned = <<>>
    /\ log = {}
    /\ mk = NoMakedirs
    /\ seepiref = NoSEEPIRef

\* ------------------------------------------------------- path construction
\* A session directory that leaves the session out
subjsess_deriv_dname_nosession(l) ==
    deriv_dir \o << <<"sub-">> \o l.subj_id >>

\* line 103
subjsess_deriv_dname(l) ==
    deriv_dir \o << <<"sub-">> \o l.subj_id, <<"ses-">> \o l.sess_id >>

\* A type directory that gets a fresh name when it is already there
datatype_out_dname_fresh(l, sort_dict) ==
    IF join(subjsess_deriv_dname(l), sort_dict.DataType) \in tree.dirs
    THEN join(subjsess_deriv_dname(l), sort_dict.DataType \o <<"-", "2">>)
    ELSE join(subjsess_deriv_dname(l), sort_dict.DataType)

\* lines 109 and 144
datatype_out_dname(l, sort_dict) == join(subjsess_deriv_dname(l), sort_dict.DataType)

\* A trigger on the empty new suffix instead of the data type
IsAtlasCopy_emptysuffix(sort_dict) == sort_dict.NewSuffix = <<>>

\* line 115
IsAtlasCopy(sort_dict) == Contains(sort_dict.DataType, <<"atlas">>)

\* The source extension whatever the file type
FileExtension_source(sort_dict, old_ext) == old_ext

\* lines 127-132
FileExtension(sort_dict, old_ext) ==
    IF Contains(sort_dict.FileType, <<"Text">>) THEN <<".txt">>
    ELSE IF Contains(sort_dict.FileType, <<"CSV">>) THEN <<".csv">>
    ELSE old_ext

\* A file name that keeps the source suffix whatever the rule
file_out_pname_keepsuffix(l, in_pname, sort_dict) ==
    IF IsAtlasCopy(sort_dict)
    THEN join(datatype_out_dname(l, sort_dict), basename(in_pname))
    ELSE join(datatype_out_dname(l, sort_dict),
              l.source_bname \o FileExtension(sort_dict, l.old_ext))

\* lines 112-132
file_out_pname(l, in_pname, sort_dict) ==
    IF IsAtlasCopy(sort_dict)
    THEN join(datatype_out_dname(l, sort_dict), basename(in_pname))
    ELSE join(datatype_out_dname(l, sort_dict),
              str_replace(l.source_bname, l.old_suffix, sort_dict.NewSuffix)
                  \o FileExtension(sort_dict, l.old_ext))

\* A folder named by the new suffix alone
folder_out_pname_suffixonly(l, sort_dict) ==
    join(datatype_out_dname(l, sort_dict), sort_dict.NewSuffix)

\* lines 147-149
folder_out_pname(l, sort_dict) ==
    join(datatype_out_dname(l, sort_dict),
         str_replace(l.source_bname, l.old_suffix, sort_dict.NewSuffix))

\* What _run_interface writes to the log while it names the destination of
\* a file pair: lines 112-132 hold no logging call and raise no warning
messages(l, in_pname, sort_dict) == <<>>

\* zip() stops at the shorter of its two lists
NFilePairs == Min(Len(file_list), Len(file_sort_dicts))

NFolderPairs == Min(Len(folder_list), Len(folder_sort_dicts))

\* ----------------------------------------------------------------- actions
\* _run_interface is called: lines 85-103
Begin ==
    /\ pc \in {"ready", "done", "failed"}
    /\ runs < MaxRuns
    /\ runs' = runs + 1
    /\ copies' = <<>>
    /\ i' = 1
    /\ LET keys == parse_file_entities(source_file)
       IN  IF EntityNames \subseteq DOMAIN keys
           THEN /\ loc' = [subj_id |-> keys["subject"],
                           sess_id |-> keys["session"],
                           old_suffix |-> keys["suffix"],
                           old_ext |-> keys["extension"],
                           source_bname |-> splitext(splitext(basename(source_file))[1])[1]]
                /\ pc' = "files"
                /\ err' = ""
           ELSE /\ loc' = NoLocals
                /\ pc' = "failed"
                /\ err' = "KeyError"
    /\ UNCHANGED <<seepiref, mk, inputs, work, tree, returned, log>>

\* A file loop that carries on after a failed copy (try/except/continue)
FileStep_skip ==
    /\ pc = "files"
    /\ i <= NFilePairs
    /\ LET in_pname == file_list[i]
           sort_dict == file_sort_dicts[i]
           md == makedirs(tree, datatype_out_dname(loc, sort_dict))
           out_pname == file_out_pname(loc, in_pname, sort_dict)
           cp == copyfile(work, md.tree, in_pname, out_pname)
       IN  IF md.err # "" \/ cp.err # ""
           THEN /\ tree' = cp.tree
                /\ i' = i + 1
                /\ UNCHANGED <<pc, err, copies, work, log>>
           ELSE /\ tree' = cp.tree
                /\ work' = work_after_copy(work, in_pname)
                /\ i' = i + 1
                /\ copies' = Append(copies, [kind |-> "file", idx |-> i,
                                             src |-> in_pname, dst |-> out_pname])
                /\ log' = log \cup {[call |-> runs, kind |-> "file", source |-> source_file,
                                      rule |-> sort_dict, src |-> in_pname, dst |-> out_pname]}
                /\ UNCHANGED <<pc, err>>
    /\ UNCHANGED <<seepiref, mk, inputs, loc, runs, returned>>

\* One iteration of the file loop: lines 106-135
FileStep ==
    /\ pc = "files"
    /\ i <= NFilePairs
    /\ LET in_pname == file_list[i]
           sort_dict == file_sort_dicts[i]
           md == makedirs(tree, datatype_out_dname(loc, sort_dict))
           out_pname == file_out_pname(loc, in_pname, sort_dict)
           cp == copyfile(work, md.tree, in_pname, out_pname)
       IN  IF md.err # ""
           THEN /\ pc' = "failed" /\ err' = md.err /\ tree' = md.tree
                /\ UNCHANGED <<i, copies, work, log>>
           ELSE IF cp.err # ""
           THEN /\ pc' = "failed" /\ err' = cp.err /\ tree' = cp.tree
                /\ UNCHANGED <<i, copies, work, log>>
           ELSE /\ tree' = cp.tree
                /\ work' = work_after_copy(work, in_pname)
                /\ i' = i + 1
                /\ copies' = Append(copies, [kind |-> "file", idx |-> i,
                                             src |-> in_pname, dst |-> out_pname])
                /\ log' = log \cup {[call |-> runs, kind |-> "file", source |-> source_file,
                                      rule |-> sort_dict, src |-> in_pname, dst |-> out_pname]}
                /\ UNCHANGED <<pc, err>>
    /\ UNCHANGED <<seepiref, mk, inputs, loc, runs, returned>>

\* The file loop is exhausted: line 141 is reached
FileLoopExit ==
    /\ pc = "files"
    /\ i > NFilePairs
    /\ pc' = "folders"
    /\ i' = 1
    /\ UNCHANGED <<seepiref, mk, inputs, work, tree, loc, err, runs, copies, returned, log>>

\* A folder loop that clears the destination before copying into it
\* (shutil.rmtree followed by shutil.copytree)
FolderStep_rmtree ==
    /\ pc = "folders"
    /\ i <= NFolderPairs
    /\ LET in_dname == folder_list[i]
           sort_dict == folder_sort_dicts[i]
           md == makedirs(tree, datatype_out_dname(loc, sort_dict))
           out_pname == folder_out_pname(loc, sort_dict)
           cleared == [dirs |-> {d \in md.tree.dirs : ~IsUnder(out_pname, d)},
                       files |-> [f \in {g \in DOMAIN md.tree.files : ~IsUnder(out_pname, g)}
                                     |-> md.tree.files[f]]]
           cp == copytree(work, cleared, in_dname, out_pname)
       IN  IF md.err # ""
           THEN /\ pc' = "failed" /\ err' = md.err /\ tree' = md.tree
                /\ UNCHANGED <<i, copies, work, log>>
           ELSE IF cp.err # ""
           THEN /\ pc' = "failed" /\ err' = cp.err /\ tree' = cp.tree
                /\ UNCHANGED <<i, copies, work, log>>
           ELSE /\ tree' = cp.tree
                /\ work' = work_after_copy(work, in_dname)
                /\ i' = i + 1
                /\ copies' = Append(copies, [kind |-> "folder", idx |-> i,
                                             src |-> in_dname, dst |-> out_pname])
                /\ log' = log \cup {[call |-> runs, kind |-> "folder", source |-> source_file,
                                      rule |-> sort_dict, src |-> in_dname, dst |-> out_pname]}
                /\ UNCHANGED <<pc, err>>
    /\ UNCHANGED <<seepiref, mk, inputs, loc, runs, returned>>

\* One iteration of the folder loop: lines 141-154
FolderStep ==
    /\ pc = "folders"
    /\ i <= NFolderPairs
    /\ LET in_dname == folder_list[i]
           sort_dict == folder_sort_dicts[i]
           md == makedirs(tree, datatype_out_dname(loc, sort_dict))
           out_pname == folder_out_pname(loc, sort_dict)
           cp == copytree(work, md.tree, in_dname, out_pname)
       IN  IF md.err # ""
           THEN /\ pc' = "failed" /\ err' = md.err /\ tree' = md.tree
                /\ UNCHANGED <<i, copies, work, log>>
           ELSE IF cp.err # ""
           THEN /\ pc' = "failed" /\ err' = cp.err /\ tree' = cp.tree
                /\ UNCHANGED <<i, copies, work, log>>
           ELSE /\ tree' = cp.tree
                /\ work' = work_after_copy(work, in_dname)
                /\ i' = i + 1
                /\ copies' = Append(copies, [kind |-> "folder", idx |-> i,
                                             src |-> in_dname, dst |-> out_pname])
                /\ log' = log \cup {[call |-> runs, kind |-> "folder", source |-> source_file,
                                      rule |-> sort_dict, src |-> in_dname, dst |-> out_pname]}
                /\ UNCHANGED <<pc, err>>
    /\ UNCHANGED <<seepiref, mk, inputs, loc, runs, returned>>

\* The folder loop is exhausted: return runtime, line 167
Return ==
    /\ pc = "folders"
    /\ i > NFolderPairs
    /\ pc' = "done"
    /\ returned' = Append(returned, tree)
    /\ UNCHANGED <<seepiref, mk, inputs, work, tree, i, loc, err, runs, copies, log>>

Next == Begin \/ FileStep \/ FileLoopExit \/ FolderStep \/ Return

Spec == Init /\ [][Next]_vars

TypeOK ==
    /\ pc \in {"ready", "files", "folders", "done", "failed"}
    /\ runs \in 0..MaxRuns
    /\ i \in 1..(MaxFiles + 1)
    /\ err \in {"", "KeyError", "FileNotFoundError", "FileExistsError", "IsADirectoryError",
                "Error", "OSError"}

\* ------------------------------------------- the sorter in its environment
\* The same calls, made against a derivatives tree that may hold the output
\* of an earlier pipeline run, on a filesystem whose writes can fail midway
\* (disk full, quota, I/O error), by a caller that may change the inputs
\* between two calls.

\* Source images of the environment runs
EnvSources ==
    { join(SrcDir, <<"sub-", "01", "_", "ses-", "1", "_", "task-", "rest", "_", "bold", ".nii", ".gz">>),
      join(SrcDir, <<"sub-", "01", "_", "ses-", "1", "_", "task-", "bold", "_", "bold", ".nii", ".gz">>) }

\* File artifacts and their rules, as the caller pairs them
EnvPairs ==
    { [files |-> <<Art1>>,
       rules |-> <<[DataType |-> <<"qc">>, NewSuffix |-> <<"recon-", "tmean", "_", "bold">>,
                    FileType |-> <<"Image">>]>>],
      [files |-> <<Art3, Art1>>,
       rules |-> <<[DataType |-> <<"qc">>, NewSuffix |-> <<"recon-", "tmean", "_", "bold">>,
                    FileType |-> <<"Text">>],
                   [DataType |-> <<"qc">>, NewSuffix |-> <<"recon-", "tmean", "_", "bold">>,
                    FileType |-> <<"Image">>]>>],
      [files |-> <<Art1, Art2>>,
       rules |-> <<[DataType |-> <<"atlas">>, NewSuffix |-> <<>>, FileType |-> <<"Image">>],
                   [DataType |-> <<"atlas">>, NewSuffix |-> <<>>, FileType |-> <<"Image">>]>>] }

\* What an earlier run of the pipeline left for sub-01/ses-1, task-rest
PreviousSessDir == join(join(deriv_dir, <<"sub-", "01">>), <<"ses-", "1">>)

PreviousImage ==
    join(join(PreviousSessDir, <<"qc">>),
         <<"sub-", "01", "_", "ses-", "1", "_", "task-", "rest", "_",
           "recon-", "tmean", "_", "bold", ".nii", ".gz">>)

PreviousMelodic ==
    join(join(PreviousSessDir, <<"melodic">>),
         <<"sub-", "01", "_", "ses-", "1", "_", "task-", "rest", "_", "melodic", ".ica">>)

PreviousTree ==
    [dirs |-> Prefixes(join(PreviousSessDir, <<"qc">>))
              \cup Prefixes(join(PreviousMelodic, <<"stats">>)),
     files |-> (PreviousImage :> "old")
               @@ (join(PreviousMelodic, <<"old", ".txt">>) :> "old")
               @@ (join(join(PreviousMelodic, <<"stats">>), <<"stats", ".txt">>) :> "old")]

EnvInit ==
    /\ source_file \in EnvSources
    /\ \E p \in EnvPairs : file_list = p.files /\ file_sort_dicts = p.rules
    /\ folder_list \in FolderLists
    /\ folder_sort_dicts \in FolderRuleLists
    /\ work \in WorkStates
    /\ tree \in {EmptyTree, PreviousTree}
    /\ pc = "ready"
    /\ i = 1
    /\ loc = NoLocals
    /\ err = ""
    /\ runs = 0
    /\ copies = <<>>
    /\ returned = <<>>
    /\ log = {}
    /\ mk = NoMakedirs
    /\ seepiref = NoSEEPIRef

\* shutil.copyfile whose write fails midway: the destination was opened
\* with 'wb' and holds what was written before the error
copyfile_interrupted(w, t, src, dst) ==
    [err |-> "OSError", tree |-> [t EXCEPT !.files = (dst :> "partial") @@ @]]

\* shutil.copytree in which the write of entry f fails midway: copytree
\* records the error, copies the remaining entries and raises shutil.Error
\* (an OSError) that carries the write error
copytree_interrupted(w, t, src, dst, f) ==
    [err |-> "OSError",
     tree |-> [copytree(w, t, src, dst).tree EXCEPT
                  !.files = (Reloc(src, dst, f) :> "partial") @@ @]]

\* An iteration of the file loop whose copy hits a write error: lines 106-135
\* A failing copy after which the destinations this call had written are
\* removed again
FileFault_rollback ==
    /\ pc = "files"
    /\ i <= NFilePairs
    /\ LET in_pname == file_list[i]
           sort_dict == file_sort_dicts[i]
           md == makedirs(tree, datatype_out_dname(loc, sort_dict))
           out_pname == file_out_pname(loc, in_pname, sort_dict)
           written == {copies[k].dst : k \in 1..Len(copies)} \cup {out_pname}
       IN  /\ md.err = ""
           /\ copyfile(work, md.tree, in_pname, out_pname).err = ""
           /\ tree' = [md.tree EXCEPT !.files =
                          [f \in (DOMAIN md.tree.files) \ written |-> md.tree.files[f]]]
           /\ err' = copyfile_interrupted(work, md.tree, in_pname, out_pname).err
    /\ pc' = "failed"
    /\ UNCHANGED <<seepiref, mk, inputs, work, i, loc, runs, copies, returned, log>>

\* An iteration of the file loop in which the copy hits a write error
\* midway: lines 106-135

FileFault ==
    /\ pc = "files"
    /\ i <= NFilePairs
    /\ LET in_pname == file_list[i]
           sort_dict == file_sort_dicts[i]
           md == makedirs(tree, datatype_out_dname(loc, sort_dict))
           out_pname == file_out_pname(loc, in_pname, sort_dict)
       IN  /\ md.err = ""
           /\ copyfile(work, md.tree, in_pname, out_pname).err = ""
           /\ tree' = copyfile_interrupted(work, md.tree, in_pname, out_pname).tree
           /\ err' = copyfile_interrupted(work, md.tree, in_pname, out_pname).err
    /\ pc' = "failed"
    /\ UNCHANGED <<seepiref, mk, inputs, work, i, loc, runs, copies, returned, log>>

\* An iteration of the folder loop in which the copy of one entry hits a
\* write error: lines 141-154
FolderFault ==
    /\ pc = "folders"
    /\ i <= NFolderPairs
    /\ LET in_dname == folder_list[i]
           sort_dict == folder_sort_dicts[i]
           md == makedirs(tree, datatype_out_dname(loc, sort_dict))
           out_pname == folder_out_pname(loc, sort_dict)
       IN  /\ md.err = ""
           /\ copytree(work, md.tree, in_dname, out_pname).err = ""
           /\ \E f \in {g \in DOMAIN work.files : IsUnder(in_dname, g)} :
                 /\ tree' = copytree_interrupted(work, md.tree, in_dname, out_pname, f).tree
                 /\ err' = copytree_interrupted(work, md.tree, in_dname, out_pname, f).err
    /\ pc' = "failed"
    /\ UNCHANGED <<seepiref, mk, inputs, work, i, loc, runs, copies, returned, log>>

\* Between two calls the caller sets other inputs on the node
Reconfigure ==
    /\ pc \in {"done", "failed"}
    /\ runs < MaxRuns
    /\ source_file' \in EnvSources
    /\ \E p \in EnvPairs : file_list' = p.files /\ file_sort_dicts' = p.rules
    /\ <<source_file', file_list'>> # <<source_file, file_list>>
    /\ pc' = "ready"
    /\ UNCHANGED <<seepiref, mk, folder_list, folder_sort_dicts, work, tree, i, loc, err, runs,
                   copies, returned, log>>

EnvNext ==
    \/ Begin \/ FileStep \/ FileLoopExit \/ FolderStep \/ Return
    \/ FileFault \/ FolderFault \/ Reconfigure

EnvSpec == EnvInit /\ [][EnvNext]_vars

\* ------------------------------------------------ the derivatives workflow
\* build_derivatives_wf: the shipped rule tables, the slots wired into the
\* merge nodes and the sorter node they feed.

\* A file table none of whose records carries a new suffix
ShippedFileRules_nosuffix ==
    [k \in 1..18 |->
        [DataType |-> IF k \in 12..18 THEN <<"atlas">>
                      ELSE IF k <= 4 THEN <<"preproc">> ELSE <<"qc">>,
         FileType |-> <<"Image">>,
         NewSuffix |-> <<>>]]

\* file_sort_dicts of build_derivatives_wf, lines 54-73
ShippedFileRules ==
    << [DataType |-> <<"preproc">>, FileType |-> <<"Image">>,
        NewSuffix |-> <<"recon-", "preproc", "_", "part-", "mag", "_", "bold">>],
       [DataType |-> <<"preproc">>, FileType |-> <<"Image">>,
        NewSuffix |-> <<"recon-", "preproc", "_", "part-", "phase", "_", "bold">>],
       [DataType |-> <<"preproc">>, FileType |-> <<"Image">>,
        NewSuffix |-> <<"recon-", "preproc", "_", "part-", "phasediff", "_", "bold">>],
       [DataType |-> <<"preproc">>, FileType |-> <<"Image">>,
        NewSuffix |-> <<"recon-", "preproc", "_", "part-", "mag", "_", "seepi">>],
       [DataType |-> <<"qc">>, FileType |-> <<"Image">>,
        NewSuffix |-> <<"recon-", "tmean", "_", "part-", "mag", "_", "bold">>],
       [DataType |-> <<"qc">>, FileType |-> <<"Image">>,
        NewSuffix |-> <<"recon-", "tsd", "_", "part-", "mag", "_", "bold">>],
       [DataType |-> <<"qc">>, FileType |-> <<"Image">>,
        NewSuffix |-> <<"recon-", "tsfnr", "_", "part-", "mag", "_", "bold">>],
       [DataType |-> <<"qc">>, FileType |-> <<"Text">>,
        NewSuffix |-> <<"recon-", "tsfnr", "_", "part-", "mag", "_", "bold", "_", "roistats">>],
       [DataType |-> <<"qc">>, FileType |-> <<"Image">>,
        NewSuffix |-> <<"recon-", "topup", "_", "fieldmap">>],
       [DataType |-> <<"qc">>, FileType |-> <<"Image">>,
        NewSuffix |-> <<"recon-", "topup", "_", "dropout">>],
       [DataType |-> <<"qc">>, FileType |-> <<"CSV">>,
        NewSuffix |-> <<"recon-", "motion", "_", "pars">>],
       [DataType |-> <<"atlas">>, FileType |-> <<"Image">>, NewSuffix |-> <<>>],
       [DataType |-> <<"atlas">>, FileType |-> <<"Image">>, NewSuffix |-> <<>>],
       [DataType |-> <<"atlas">>, FileType |-> <<"Image">>, NewSuffix |-> <<>>],
       [DataType |-> <<"atlas">>, FileType |-> <<"Image">>, NewSuffix |-> <<>>],
       [DataType |-> <<"atlas">>, FileType |-> <<"Image">>, NewSuffix |-> <<>>],
       [DataType |-> <<"atlas">>, FileType |-> <<"Image">>, NewSuffix |-> <<>>],
       [DataType |-> <<"atlas">>, FileType |-> <<"Image">>, NewSuffix |-> <<>>] >>

\* folder_sort_dicts of build_derivatives_wf, lines 76-78
ShippedFolderRules ==
    << [DataType |-> <<"melodic">>, NewSuffix |-> <<"melodic", ".ica">>,
        FileType |-> <<"Folder">>] >>

\* The inputnode fields connected to in1, in2, ... of deriv_file_list,
\* lines 110-130
WiredFileSlots ==
    << "tpl_bold_mag_preproc", "tpl_bold_phs_preproc", "tpl_bold_dphi_preproc",
       "tpl_seepiref_preproc", "tpl_sbref_preproc", "tpl_bold_mag_tmean",
       "tpl_bold_mag_tsd", "tpl_bold_mag_tsfnr", "tpl_bold_mag_tsfnr_roistats",
       "tpl_topup_b0_rads", "tpl_dropout", "motion_csv", "tpl_t1w_head",
       "tpl_t2w_head", "tpl_t1w_brain", "tpl_t2w_brain", "tpl_pseg", "tpl_dseg",
       "tpl_bmask" >>

\* The inputnode field connected to in1 of deriv_folder_list, lines 135-137
WiredFolderSlots == << "melodic_out_dir" >>

\* util.Merge(numinputs=n): the output lists in1..inn in order; a value set
\* on an input beyond inn is not read
Merge(numinputs, wired) == SubSeq(wired, 1, Min(numinputs, Len(wired)))

\* Extension of the file an upstream node delivers in a slot
SlotExt(slot) ==
    CASE slot = "motion_csv" -> <<".csv">>
      [] slot = "tpl_bold_mag_tsfnr_roistats" -> <<".txt">>
      [] OTHER -> <<".nii", ".gz">>

\* How upstream nodes name their outputs: after the slot, or all alike
NameStyles == {"slot", "out"}

SlotArtifact(slot, style) ==
    << <<"work">>, <<slot>>, (IF style = "slot" THEN <<slot>> ELSE <<"out">>) \o SlotExt(slot) >>

SlotNames == {WiredFileSlots[k] : k \in 1..Len(WiredFileSlots)}

\* Working directory of a pipeline run: one artifact per slot (content: the
\* slot it was made for) and the melodic folder
PipelineWork ==
    [dirs |-> {d \in WorkDirs : IsUnder(Mel, d) \/ Len(d) = 1}
              \cup {<< <<"work">>, <<s>> >> : s \in SlotNames},
     files |-> [f \in {g \in DOMAIN WorkFiles : IsUnder(Mel, g)} |-> WorkFiles[f]]
               @@ [f \in {SlotArtifact(s, st) : s \in SlotNames, st \in NameStyles} |-> f[2][1]]]

\* BOLD images of two subjects and two sessions, and one whose stem has a dot
PipelineSources ==
    { join(SrcDir, <<"sub-", "01", "_", "ses-", "1", "_", "task-", "rest", "_", "bold", ".nii", ".gz">>),
      join(SrcDir, <<"sub-", "01", "_", "ses-", "2", "_", "task-", "rest", "_", "bold", ".nii", ".gz">>),
      join(SrcDir, <<"sub-", "02", "_", "ses-", "1", "_", "task-", "rest", "_", "bold", ".nii", ".gz">>),
      join(SrcDir, <<"sub-", "01", "_", "ses-", "1", "_", "acq-", "1", ".5", "_", "bold", ".nii">>),
      join(SrcDir, <<"sub-", "01", "_", "ses-", "1", "_", "acq-", "1", ".5", "_",
                     "task-", "rest", "_", "bold", ".nii">>) }

\* The sorter node as build_derivatives_wf sets it up, lines 81-139
PipelineInit ==
    /\ source_file \in PipelineSources
    /\ file_sort_dicts = ShippedFileRules
    /\ folder_sort_dicts = ShippedFolderRules
    /\ \E style \in NameStyles :
          file_list = Merge(Len(ShippedFileRules),
                            [k \in 1..Len(WiredFileSlots) |-> SlotArtifact(WiredFileSlots[k], style)])
    /\ folder_list = Merge(Len(ShippedFolderRules), <<Mel>>)
    /\ work = PipelineWork
    /\ tree = EmptyTree
    /\ pc = "ready"
    /\ i = 1
    /\ loc = NoLocals
    /\ err = ""
    /\ runs = 0
    /\ copies = <<>>
    /\ returned = <<>>
    /\ log = {}
    /\ mk = NoMakedirs
    /\ seepiref = NoSEEPIRef

\* The workflow is run again for another BOLD image, session or subject
NextSource ==
    /\ pc \in {"done", "failed"}
    /\ runs < MaxRuns
    /\ source_file' \in PipelineSources \ {source_file}
    /\ pc' = "ready"
    /\ UNCHANGED <<seepiref, mk, file_list, file_sort_dicts, folder_list, folder_sort_dicts, work, tree,
                   i, loc, err, runs, copies, returned, log>>

PipelineNext ==
    \/ Begin \/ FileStep \/ FileLoopExit \/ FolderStep \/ Return \/ NextSource

PipelineSpec == PipelineInit /\ [][PipelineNext]_vars

\* ------------------------------------------ concurrent directory creation
\* Two sorter processes reach os.makedirs(datatype_out_dname, exist_ok=True)
\* (line 110) on the same derivatives tree. os.makedirs is not atomic: it
\* walks up to the nearest existing ancestor, testing os.path.exists, and
\* then creates one directory per mkdir system call on the way down.

\* Subject and session of the pair a process is at
RaceLocals ==
    { [subj_id |-> <<"01">>, sess_id |-> <<"1">>, old_suffix |-> <<"bold">>,
       old_ext |-> <<".nii", ".gz">>,
       source_bname |-> <<"sub-", "01", "_", "ses-", "1", "_", "task-", "rest", "_", "bold">>],
      [subj_id |-> <<"01">>, sess_id |-> <<"2">>, old_suffix |-> <<"bold">>,
       old_ext |-> <<".nii", ".gz">>,
       source_bname |-> <<"sub-", "01", "_", "ses-", "2", "_", "task-", "rest", "_", "bold">>] }

\* Rules of the pairs the processes are at
RaceRules == {ShippedFileRules[1], ShippedFileRules[5]}

\* Trees the processes may start on: empty, subject directory there, the
\* whole type directory there, a regular file where the session directory
\* would be
RaceTrees ==
    { EmptyTree,
      [dirs |-> {deriv_dir, join(deriv_dir, <<"sub-", "01">>)}, files |-> <<>>],
      [dirs |-> Prefixes(join(PreviousSessDir, <<"qc">>)), files |-> <<>>],
      [dirs |-> {deriv_dir, join(deriv_dir, <<"sub-", "01">>)},
       files |-> (PreviousSessDir :> "x")] }

RaceInit ==
    /\ source_file \in {join(SrcDir, <<"sub-", "01", "_", "ses-", "1", "_", "task-", "rest",
                                       "_", "bold", ".nii", ".gz">>)}
    /\ file_list = <<>>
    /\ file_sort_dicts = <<>>
    /\ folder_list = <<>>
    /\ folder_sort_dicts = <<>>
    /\ work = [dirs |-> WorkDirs, files |-> WorkFiles]
    /\ tree \in RaceTrees
    /\ pc = "ready"
    /\ i = 1
    /\ loc = NoLocals
    /\ err = ""
    /\ runs = 0
    /\ copies = <<>>
    /\ returned = <<>>
    /\ log = {}
    /\ mk = [NoMakedirs EXCEPT !.tree0 = tree]
    /\ seepiref = NoSEEPIRef

\* os.path.exists
path_exists(t, p) == p \in t.dirs \/ p \in DOMAIN t.files

\* An os.makedirs that does not accept an existing directory (exist_ok=False)
makedirs_tolerates_never(t, name) == FALSE

\* "exist_ok and path.isdir(name)": the OSError of mkdir is swallowed
makedirs_tolerates(t, name) == name \in t.dirs

\* A process reaches line 110 for a pair: os.makedirs(name, exist_ok=True) is called
MkStart(p) ==
    /\ mk.proc[p].pc = "idle"
    /\ \E l \in RaceLocals, sort_dict \in RaceRules :
          mk' = [mk EXCEPT !.proc[p] =
                    [pc |-> "down", target |-> datatype_out_dname(l, sort_dict),
                     k |-> Len(datatype_out_dname(l, sort_dict)), found |-> FALSE, err |-> ""]]
    /\ UNCHANGED <<seepiref, inputs, work, tree, pc, i, loc, err, runs, copies, returned, log>>

\* "if head and tail and not path.exists(head): makedirs(head, exist_ok)":
\* the recursion goes up while the parent does not exist
MkDescend(p) ==
    /\ mk.proc[p].pc = "down"
    /\ LET q == mk.proc[p]
           head == SubSeq(q.target, 1, q.k - 1)
       IN  mk' = IF q.k = 1 \/ path_exists(tree, head)
                 THEN [mk EXCEPT !.proc[p].pc = "up"]
                 ELSE [mk EXCEPT !.proc[p].k = q.k - 1]
    /\ UNCHANGED <<seepiref, inputs, work, tree, pc, i, loc, err, runs, copies, returned, log>>

\* "mkdir(name, mode)" with its except clause, for the directory at depth k;
\* a FileExistsError of a recursive call is passed over by its caller
MkDir(p) ==
    /\ mk.proc[p].pc = "up"
    /\ LET q == mk.proc[p]
           name == SubSeq(q.target, 1, q.k)
           head == SubSeq(q.target, 1, q.k - 1)
           last == q.k = Len(q.target)
           e == IF head \notin tree.dirs
                THEN (IF head \in DOMAIN tree.files THEN "NotADirectoryError"
                                                    ELSE "FileNotFoundError")
                ELSE IF path_exists(tree, name)
                THEN (IF makedirs_tolerates(tree, name) THEN "" ELSE "FileExistsError")
                ELSE ""
           goes_on == e = "" \/ (e = "FileExistsError" /\ ~last)
       IN  /\ tree' = IF head \in tree.dirs /\ ~path_exists(tree, name)
                      THEN [tree EXCEPT !.dirs = @ \cup {name}]
                      ELSE tree
           /\ mk' = [mk EXCEPT !.proc[p] =
                        [q EXCEPT !.pc = IF ~goes_on THEN "raised"
                                         ELSE IF last THEN "done" ELSE "up",
                                  !.k = IF goes_on /\ ~last THEN q.k + 1 ELSE q.k,
                                  !.found = q.found \/ (head \in tree.dirs /\ path_exists(tree, name)),
                                  !.err = IF goes_on THEN "" ELSE e]]
    /\ UNCHANGED <<seepiref, inputs, work, pc, i, loc, err, runs, copies, returned, log>>

RaceNext ==
    \/ \E p \in Procs : MkStart(p)
    \/ \E p \in Procs : MkDescend(p)
    \/ \E p \in Procs : MkDir(p)

RaceSpec == RaceInit /\ [][RaceNext]_vars

\* ------------------------------------------------------- naming of outputs
\* The sorter applied to one rule and two artifacts of different names, for
\* sources with one or two extensions and with or without a dot in the stem.

NameSources ==
    { join(SrcDir, <<"sub-", "01", "_", "ses-", "1", "_", "task-", "rest", "_", "bold", ".nii", ".gz">>),
      join(SrcDir, <<"sub-", "01", "_", "ses-", "1", "_", "task-", "rest", "_", "bold", ".nii">>),
      join(SrcDir, <<"sub-", "01", "_", "ses-", "1", "_", "task-", "bold", "_", "bold", ".nii", ".gz">>),
      join(SrcDir, <<"sub-", "01", "_", "ses-", "1", "_", "acq-", "1", ".5", "_", "bold", ".nii">>),
      join(SrcDir, <<"sub-", "01", "_", "ses-", "1", "_", "acq-", "1", ".5", "_", "bold", ".nii", ".gz">>) }

\* Rules: a new suffix, the suffix of the source itself, no suffix; with
\* and without 'atlas' in the data type
NameRules ==
    { [DataType |-> <<"qc">>, NewSuffix |-> <<"recon-", "tmean", "_", "bold">>, FileType |-> <<"Image">>],
      [DataType |-> <<"qc">>, NewSuffix |-> <<"bold">>, FileType |-> <<"Image">>],
      [DataType |-> <<"qc">>, NewSuffix |-> <<>>, FileType |-> <<"Image">>],
      [DataType |-> <<"qc">>, NewSuffix |-> <<"recon-", "tmean", "_", "bold">>, FileType |-> <<"Text">>],
      [DataType |-> <<"atlas">>, NewSuffix |-> <<"recon-", "tmean", "_", "bold">>, FileType |-> <<"Image">>],
      [DataType |-> <<"atlas">>, NewSuffix |-> <<>>, FileType |-> <<"Image">>] }

NameInit ==
    /\ source_file \in NameSources
    /\ file_list = <<Art1, Art3>>
    /\ \E r \in NameRules : file_sort_dicts = <<r, r>>
    /\ folder_list = <<Mel>>
    /\ folder_sort_dicts = ShippedFolderRules
    /\ work = [dirs |-> WorkDirs, files |-> WorkFiles]
    /\ tree = EmptyTree
    /\ pc = "ready"
    /\ i = 1
    /\ loc = NoLocals
    /\ err = ""
    /\ runs = 0
    /\ copies = <<>>
    /\ returned = <<>>
    /\ log = {}
    /\ mk = NoMakedirs
    /\ seepiref = NoSEEPIRef

NameSpec == NameInit /\ [][Next]_vars

\* A sink that files in_file under the source's own name
bids_sink_out_file_samename(source, deriv, new_suffix, datatype) ==
    LET keys == parse_file_entities(source)
        out_dir == join(join(join(deriv, <<"sub-">> \o keys["subject"]),
                             <<"ses-">> \o keys["session"]), datatype)
    IN  join(out_dir, basename(source))

\* bids_sink of scqc: the destination it computes for in_file, lines 159-172
\* (the suffix is replaced in the whole basename, extension included, and
\* nothing is appended)
bids_sink_out_file(source, deriv, new_suffix, datatype) ==
    LET keys == parse_file_entities(source)
        out_dir == join(join(join(deriv, <<"sub-">> \o keys["subject"]),
                             <<"ses-">> \o keys["session"]), datatype)
    IN  join(out_dir, str_replace(basename(source), keys["suffix"], new_suffix))

\* --------------------------------------------------------------- SEEPIRef
\* Values of PhaseEncodingDirection in the sidecars
PEDirections == {"j", "j-"}

\* A metadata dictionary, with or without the PhaseEncodingDirection key
MetaDicts ==
    {[PhaseEncodingDirection |-> d, EchoTime |-> "t"] : d \in PEDirections}
    \cup {[EchoTime |-> "t"]}

\* The SE-EPI fieldmap images, in list order
SeepiNames == <<"fmap1", "fmap2", "fmap3", "fmap4">>

\* The node with its inputs set: seepi_mag, seepi_meta and sbref_meta are
\* set independently of one another, lines 27-42
SEEPIRefInit ==
    /\ \E n \in 0..MaxMaps, m \in SeqUpTo(MetaDicts, MaxMaps), s \in MetaDicts :
          seepiref = [NoSEEPIRef EXCEPT !.seepi_mag = SubSeq(SeepiNames, 1, n),
                                        !.seepi_meta = m,
                                        !.sbref_meta = s,
                                        !.pc = "ready"]
    /\ source_file = <<>>
    /\ file_list = <<>>
    /\ file_sort_dicts = <<>>
    /\ folder_list = <<>>
    /\ folder_sort_dicts = <<>>
    /\ work = [dirs |-> WorkDirs, files |-> WorkFiles]
    /\ tree = EmptyTree
    /\ pc = "ready"
    /\ i = 1
    /\ loc = NoLocals
    /\ err = ""
    /\ runs = 0
    /\ copies = <<>>
    /\ returned = <<>>
    /\ log = {}
    /\ mk = NoMakedirs

\* The output keeps the fieldmap that matched first
set_seepi_mag_ref_once(outputs, seepi_mag_fname) ==
    IF outputs.seepi_mag_ref = "Undefined"
    THEN [outputs EXCEPT !.seepi_mag_ref = seepi_mag_fname]
    ELSE outputs

\* outputs["seepi_mag_ref"] = seepi_mag_fname, line 81
set_seepi_mag_ref(outputs, seepi_mag_fname) ==
    [outputs EXCEPT !.seepi_mag_ref = seepi_mag_fname]

\* _list_outputs is called: lines 69-72
ListOutputsBegin ==
    /\ seepiref.pc = "ready"
    /\ IF "PhaseEncodingDirection" \in DOMAIN seepiref.sbref_meta
       THEN seepiref' = [seepiref EXCEPT
                            !.sbref_pe_dir = seepiref.sbref_meta.PhaseEncodingDirection,
                            !.fc = 1,
                            !.pc = "loop"]
       ELSE seepiref' = [seepiref EXCEPT !.pc = "raised", !.err = "KeyError"]
    /\ UNCHANGED <<mk, inputs, work, tree, pc, i, loc, err, runs, copies, returned, log>>

\* One iteration of the loop over seepi_mag: lines 75-81 (fc counts from 1)
ListOutputsIter ==
    /\ seepiref.pc = "loop"
    /\ seepiref.fc <= Len(seepiref.seepi_mag)
    /\ IF seepiref.fc > Len(seepiref.seepi_meta)
       THEN seepiref' = [seepiref EXCEPT !.pc = "raised", !.err = "IndexError"]
       ELSE LET fmap_meta == seepiref.seepi_meta[seepiref.fc]
            IN  IF "PhaseEncodingDirection" \notin DOMAIN fmap_meta
                THEN seepiref' = [seepiref EXCEPT !.pc = "raised", !.err = "KeyError"]
                ELSE IF fmap_meta.PhaseEncodingDirection = seepiref.sbref_pe_dir
                THEN seepiref' = [seepiref EXCEPT
                                     !.outputs = set_seepi_mag_ref(seepiref.outputs,
                                                     seepiref.seepi_mag[seepiref.fc]),
                                     !.fc = seepiref.fc + 1]
                ELSE seepiref' = [seepiref EXCEPT !.fc = seepiref.fc + 1]
    /\ UNCHANGED <<mk, inputs, work, tree, pc, i, loc, err, runs, copies, returned, log>>

\* The loop is exhausted: return outputs, line 83
ListOutputsReturn ==
    /\ seepiref.pc = "loop"
    /\ seepiref.fc > Len(seepiref.seepi_mag)
    /\ seepiref' = [seepiref EXCEPT !.pc = "returned"]
    /\ UNCHANGED <<mk, inputs, work, tree, pc, i, loc, err, runs, copies, returned, log>>

SEEPIRefNext == ListOutputsBegin \/ ListOutputsIter \/ ListOutputsReturn

SEEPIRefSpec == SEEPIRefInit /\ [][SEEPIRefNext]_vars

\* ------------------------------------------------- vocabulary of the claims
SrcBase == basename(source_file)

SrcSubject == EntityFn("subject", SrcBase)

SrcSession == EntityFn("session", SrcBase)

SrcSuffix == EntityFn("suffix", SrcBase)

SrcExtension == EntityFn("extension", SrcBase)

\* The source basename stripped of at most two trailing dot components
SrcStem == splitext(splitext(SrcBase)[1])[1]

\* <deriv_root>/sub-<subject>/ses-<session>/<data_type>
TypeDir(rule) ==
    deriv_dir \o << <<"sub-">> \o SrcSubject, <<"ses-">> \o SrcSession, rule.DataType >>

AtlasType(rule) == Contains(rule.DataType, <<"atlas">>)

\* The rule a completed copy was made under
RuleOf(c) == IF c.kind = "file" THEN file_sort_dicts[c.idx] ELSE folder_sort_dicts[c.idx]

FileCopies == {k \in 1..Len(copies) : copies[k].kind = "file"}

FolderCopies == {k \in 1..Len(copies) : copies[k].kind = "folder"}

ArityMismatch ==
    \/ Len(file_list) # Len(file_sort_dicts)
    \/ Len(folder_list) # Len(folder_sort_dicts)

LacksSubjectOrSession == SubjectPos(SrcBase) = {} \/ SessionPos(SrcBase) = {}

\* Every entry below the folder src has its copy below dst in the tree
TreeCopied(src, dst) ==
    /\ \A d \in work.dirs : IsUnder(src, d) => Reloc(src, dst, d) \in tree.dirs
    /\ \A f \in DOMAIN work.files :
          IsUnder(src, f) =>
              /\ Reloc(src, dst, f) \in DOMAIN tree.files
              /\ tree.files[Reloc(src, dst, f)] = work.files[f]

\* ---------------------------------------------------------------------- C1
\* C1: whenever file_list and file_sort_dicts, or folder_list and
\* folder_sort_dicts, differ in length, the call fails before any I/O: it
\* never enters a copy loop, never returns normally, and the derivatives
\* tree stays as it was.
C1_ArityMismatchFailsBeforeIO ==
    ArityMismatch => (pc \in {"ready", "failed"} /\ tree = EmptyTree)

\* ---------------------------------------------------------------------- C2
\* C2: when the source filename yields no subject or no session entity the
\* call fails with an error (KeyError) and nothing is created or copied:
\* the derivatives tree is unchanged and no copy was made.
C2_MissingEntityFailsBeforeIO ==
    LacksSubjectOrSession =>
        /\ pc \in {"ready", "failed"}
        /\ pc = "failed" => err = "KeyError"
        /\ tree = EmptyTree
        /\ copies = <<>>
        /\ returned = <<>>

C2_Witness ==
    /\ LacksSubjectOrSession
    /\ pc = "failed"
    /\ err = "KeyError"
    /\ Len(file_list) > 0 /\ Len(file_sort_dicts) > 0
    /\ Len(folder_list) > 0 /\ Len(folder_sort_dicts) > 0

\* ---------------------------------------------------------------------- C3
\* C3: a call that returns normally had no arity mismatch, and every
\* supplied file artifact and every supplied folder artifact is materialized
\* at its computed destination.
C3_SuccessMeansAllMaterialized ==
    pc = "done" =>
        /\ ~ArityMismatch
        /\ \A k \in 1..Len(file_list) :
              /\ k <= Len(file_sort_dicts)
              /\ file_list[k] \in DOMAIN work.files
              /\ LET dst == file_out_pname(loc, file_list[k], file_sort_dicts[k])
                 IN  dst \in DOMAIN tree.files /\ tree.files[dst] = work.files[file_list[k]]
        /\ \A k \in 1..Len(folder_list) :
              /\ k <= Len(folder_sort_dicts)
              /\ TreeCopied(folder_list[k], folder_out_pname(loc, folder_sort_dicts[k]))

\* ---------------------------------------------------------------------- C4
\* C4: for a file rule with a non-empty new_suffix and a non-atlas
\* data_type the destination is <type_dir>/<stem'><ext>, where stem' is the
\* source basename without its extension (.nii or .nii.gz) in which the
\* final suffix token, and only that token, is replaced by new_suffix.
ImageExtOf(b) ==
    IF EndsWith(b, <<".nii", ".gz">>) THEN <<".nii", ".gz">>
    ELSE IF EndsWith(b, <<".nii">>) THEN <<".nii">> ELSE <<>>

KindExt(rule, imgext) ==
    IF rule.FileType = <<"Text">> THEN <<".txt">>
    ELSE IF rule.FileType = <<"CSV">> THEN <<".csv">> ELSE imgext

FinalTokenReplaced(b, new) ==
    LET stem == SubSeq(b, 1, Len(b) - Len(ImageExtOf(b)))
    IN  SubSeq(stem, 1, Len(stem) - 1) \o new

C4_OnlyFinalSuffixTokenReplaced ==
    \A k \in FileCopies :
        LET r == RuleOf(copies[k])
        IN  (r.NewSuffix # <<>> /\ ~AtlasType(r)) =>
                copies[k].dst =
                    join(TypeDir(r), FinalTokenReplaced(SrcBase, r.NewSuffix)
                                         \o KindExt(r, ImageExtOf(SrcBase)))

\* ---------------------------------------------------------------------- C5
\* C5 (as claimed): the verbatim-copy branch is selected exactly when
\* new_suffix is empty: an empty new_suffix gives <type_dir>/<basename of the
\* artifact>, a non-empty one gives the source stem with the suffix
\* replaced, whatever the data_type.
VerbatimDst(c) == join(TypeDir(RuleOf(c)), basename(c.src))

RenamedDst(c) ==
    join(TypeDir(RuleOf(c)),
         str_replace(SrcStem, SrcSuffix, RuleOf(c).NewSuffix)
             \o KindExt(RuleOf(c), SrcExtension))

C5_VerbatimIffEmptySuffix ==
    \A k \in FileCopies :
        /\ RuleOf(copies[k]).NewSuffix = <<>> => copies[k].dst = VerbatimDst(copies[k])
        /\ RuleOf(copies[k]).NewSuffix # <<>> => copies[k].dst = RenamedDst(copies[k])

\* C5 (amended): the verbatim-copy branch is selected exactly when 'atlas'
\* occurs in data_type: then the destination is <type_dir>/<basename of the
\* artifact> whatever new_suffix is; otherwise the name is the source stem
\* with the suffix replaced by new_suffix, the empty new_suffix included.
C5_VerbatimIffAtlasType ==
    \A k \in FileCopies :
        /\ AtlasType(RuleOf(copies[k])) => copies[k].dst = VerbatimDst(copies[k])
        /\ ~AtlasType(RuleOf(copies[k])) => copies[k].dst = RenamedDst(copies[k])

C5_Witness ==
    /\ pc = "done"
    /\ \E k \in FileCopies : AtlasType(RuleOf(copies[k])) /\ RuleOf(copies[k]).NewSuffix # <<>>
    /\ \E k \in FileCopies : ~AtlasType(RuleOf(copies[k])) /\ RuleOf(copies[k]).NewSuffix = <<>>

\* ---------------------------------------------------------------------- C6
\* C6 (as claimed): for every file rule, whatever its data_type, a Text
\* destination ends in .txt, a CSV destination in .csv and an Image
\* destination in the extension of the source image.
ExtensionFollowsKind(c) ==
    LET r == RuleOf(c)
        name == basename(c.dst)
    IN  /\ r.FileType = <<"Text">> => EndsWith(name, <<".txt">>)
        /\ r.FileType = <<"CSV">> => EndsWith(name, <<".csv">>)
        /\ r.FileType = <<"Image">> =>
              /\ EndsWith(name, SrcExtension)
              /\ EndsWith(name, <<".gz">>) <=> EndsWith(SrcBase, <<".gz">>)

C6_ExtensionFollowsKindAlways ==
    \A k \in FileCopies : ExtensionFollowsKind(copies[k])

\* C6 (amended): the extension follows the file kind for every rule whose
\* data_type does not contain 'atlas'; a rule of an atlas data_type keeps
\* the artifact's own basename, extension included.
C6_ExtensionFollowsKindUnlessAtlas ==
    \A k \in FileCopies :
        /\ ~AtlasType(RuleOf(copies[k])) => ExtensionFollowsKind(copies[k])
        /\ AtlasType(RuleOf(copies[k])) => basename(copies[k].dst) = basename(copies[k].src)

C6_Witness ==
    /\ pc = "done"
    /\ \E k \in FileCopies :
          ~AtlasType(RuleOf(copies[k])) /\ RuleOf(copies[k]).FileType = <<"CSV">>
    /\ \E k \in FileCopies :
          ~AtlasType(RuleOf(copies[k])) /\ RuleOf(copies[k]).FileType = <<"Image">>
    /\ SrcExtension = <<".nii">>

\* ---------------------------------------------------------------------- C7
\* C7 (as claimed): two rules of the file table whose (data_type,
\* new_suffix) pairs differ never get the same destination, whatever the
\* artifacts.
PairsDiffer(r1, r2) == r1.DataType # r2.DataType \/ r1.NewSuffix # r2.NewSuffix

C7_DistinctPairsNeverCollide ==
    \A k1, k2 \in FileCopies :
        (k1 # k2 /\ PairsDiffer(RuleOf(copies[k1]), RuleOf(copies[k2]))) =>
            copies[k1].dst # copies[k2].dst

\* C7 (amended): two rules whose pairs differ get different destinations
\* when their data_types differ, or when their common data_type does not
\* contain 'atlas' and the source suffix occurs in the stem left after
\* stripping the extensions.
C7_DistinctPairsCollideOnlyIfVerbatim ==
    \A k1, k2 \in FileCopies :
        LET r1 == RuleOf(copies[k1])
            r2 == RuleOf(copies[k2])
        IN  (/\ k1 # k2
             /\ PairsDiffer(r1, r2)
             /\ \/ r1.DataType # r2.DataType
                \/ ~AtlasType(r1) /\ Contains(SrcStem, SrcSuffix)) =>
                copies[k1].dst # copies[k2].dst

C7_Witness ==
    /\ pc = "done"
    /\ \E k1, k2 \in FileCopies :
          /\ k1 # k2
          /\ RuleOf(copies[k1]).DataType = RuleOf(copies[k2]).DataType
          /\ RuleOf(copies[k1]).FileType = RuleOf(copies[k2]).FileType
          /\ RuleOf(copies[k1]).NewSuffix # RuleOf(copies[k2]).NewSuffix
          /\ ~AtlasType(RuleOf(copies[k1]))
          /\ Contains(SrcStem, SrcSuffix)

\* ---------------------------------------------------------------------- C8
\* C8: running the sorter again with the same inputs leaves the tree as the
\* previous run left it, and a run that follows a successful run does not
\* fail.
C8_RerunIdempotent ==
    /\ \A k \in 2..Len(returned) : returned[k] = returned[k - 1]
    /\ returned # <<>> => pc # "failed"

C8_Witness ==
    /\ Len(returned) >= 2
    /\ pc = "done"
    /\ FileCopies # {}
    /\ FolderCopies # {}

\* ---------------------------------------------------------------------- C9
\* C9 (as claimed): after a folder artifact is copied, its destination
\* holds every real entry of the source and none of the auxiliary entries
\* ('_*', '*.pklz').
RealEntriesCopied(src, dst) ==
    /\ \A d \in work.dirs :
          (IsUnder(src, d) /\ ~IsAuxEntry(src, d)) => Reloc(src, dst, d) \in tree.dirs
    /\ \A f \in DOMAIN work.files :
          (IsUnder(src, f) /\ ~IsAuxEntry(src, f)) =>
              /\ Reloc(src, dst, f) \in DOMAIN tree.files
              /\ tree.files[Reloc(src, dst, f)] = work.files[f]

NoAuxEntries(dst) ==
    \A p \in tree.dirs \cup DOMAIN tree.files : ~IsAuxEntry(dst, p)

C9_AuxiliaryEntriesScrubbed ==
    \A k \in FolderCopies :
        /\ RealEntriesCopied(copies[k].src, copies[k].dst)
        /\ NoAuxEntries(copies[k].dst)

\* C9 (amended): after a folder artifact is copied, its destination holds
\* every entry of the source, the auxiliary entries included; nothing is
\* removed from the destination.
C9_AllEntriesCopiedAuxIncluded ==
    \A k \in FolderCopies : TreeCopied(copies[k].src, copies[k].dst)

C9_Witness ==
    /\ pc = "done"
    /\ \E k \in FolderCopies :
          /\ \E f \in DOMAIN work.files : IsAuxEntry(copies[k].src, f)
          /\ \E d \in work.dirs : IsAuxEntry(copies[k].src, d)
          /\ \E f \in DOMAIN work.files :
                IsUnder(copies[k].src, f) /\ ~IsAuxEntry(copies[k].src, f)

\* --------------------------------------------------------------------- C10
\* C10 (as claimed): the destination of a Folder rule is
\* <type_dir>/<new_suffix>, a directory named by new_suffix alone, and the
\* folder's contents are copied into it.
C10_FolderNamedBySuffixAlone ==
    \A k \in FolderCopies :
        /\ copies[k].dst = join(TypeDir(RuleOf(copies[k])), RuleOf(copies[k]).NewSuffix)
        /\ TreeCopied(copies[k].src, copies[k].dst)

\* C10 (amended): the destination of a Folder rule is
\* <type_dir>/<source stem with the suffix replaced by new_suffix>, with no
\* extension appended, and the folder's contents are copied into it.
C10_FolderNamedByRenamedStem ==
    \A k \in FolderCopies :
        /\ copies[k].dst =
              join(TypeDir(RuleOf(copies[k])),
                   str_replace(SrcStem, SrcSuffix, RuleOf(copies[k]).NewSuffix))
        /\ copies[k].dst \in tree.dirs
        /\ copies[k].dst \notin DOMAIN tree.files
        /\ TreeCopied(copies[k].src, copies[k].dst)

C10_Witness ==
    /\ pc = "done"
    /\ Contains(SrcStem, SrcSuffix)
    /\ \E k \in FolderCopies :
          /\ RuleOf(copies[k]).NewSuffix = <<"melodic", ".ica">>
          /\ EndsWith(basename(copies[k].dst), <<"melodic", ".ica">>)

\* --------------------------------------------------------------------- C12
\* The pair the loops are about to process, when there is one
PairDue == \/ pc = "files" /\ i <= NFilePairs
           \/ pc = "folders" /\ i <= NFolderPairs

DueSrc == IF pc = "files" THEN file_list[i] ELSE folder_list[i]

DueRule == IF pc = "files" THEN file_sort_dicts[i] ELSE folder_sort_dicts[i]

\* The source of the due pair is missing from the working directory
DueSourceMissing ==
    /\ PairDue
    /\ IF pc = "files" THEN DueSrc \notin DOMAIN work.files
                       ELSE DueSrc \notin work.dirs

\* The type directory of the due pair cannot be created: a file is in the way
DueDestinationBlocked ==
    /\ PairDue
    /\ \E q \in Prefixes(join(join(join(deriv_dir, <<"sub-">> \o loc.subj_id),
                                   <<"ses-">> \o loc.sess_id), DueRule.DataType)) :
          q \in DOMAIN tree.files

\* C12: when the copy of a pair fails (its source is missing or its
\* destination cannot be written) the call aborts at that pair with the
\* error surfaced: the failing pair is not skipped, and once the call has
\* failed no later file or folder pair of that call is processed (the tree
\* and the record of copies stay as they are until a new call begins).
\* A write error during a copy ends the call in the same way.
C12_FailedCopyAbortsTheCall ==
    [][ /\ (DueSourceMissing \/ DueDestinationBlocked)
            => (pc' = "failed" /\ err' # "" /\ copies' = copies /\ log' = log)
        /\ (PairDue /\ copies' = copies) => (pc' = "failed" /\ err' # "")
        /\ pc = "failed"
            => (/\ tree' = tree /\ log' = log /\ err # ""
                /\ (copies' = copies \/ runs' = runs + 1)) ]_vars

\* A call whose first file pair failed with one more file pair and a folder
\* pair still to come
C12_Witness ==
    /\ pc = "failed"
    /\ err = "FileNotFoundError"
    /\ i = 1
    /\ NFilePairs = 2
    /\ NFolderPairs = 1
    /\ file_list[2] \in DOMAIN work.files
    /\ copies = <<>>

C16_FileCopyOverwrites ==
    [][ (pc = "files" /\ i <= NFilePairs) =>
          LET src == file_list[i]
              dst == file_out_pname(loc, src, file_sort_dicts[i])
          IN  /\ copies' # copies =>
                    /\ dst \in DOMAIN tree'.files
                    /\ tree'.files[dst] = work.files[src]
              /\ (dst \in DOMAIN tree.files /\ src \in DOMAIN work.files) =>
                    \/ pc' # "failed" /\ copies' # copies
                    \/ pc' = "failed" /\ err' = "OSError" ]_vars

\* Two artifacts of different content were copied to the same destination
\* in one call: the destination holds the content of the later one
C16_Witness ==
    \E k1, k2 \in FileCopies :
        /\ k1 < k2
        /\ copies[k1].dst = copies[k2].dst
        /\ work.files[copies[k1].src] # work.files[copies[k2].src]
        /\ tree.files[copies[k2].dst] = work.files[copies[k2].src]

\* --------------------------------------------------------------------- C11
\* C11 (as claimed): each per-artifact copy is all-or-nothing. When the
\* copy of a pair fails, no file of the derivatives tree has changed: the
\* destination of the failing artifact is either absent or as it was (a
\* partially written destination is never observable) and the destinations
\* of the other artifacts are untouched.
C11_CopiesAllOrNothing ==
    [][ (pc \in {"files", "folders"} /\ pc' = "failed") => tree'.files = tree.files ]_vars

\* --------------------------------------------------------------------- C17
\* The place below dst of the entry p of the folder src
Counterpart(src, dst, p) == dst \o SubSeq(p, Len(src) + 1, Len(p))

\* C17: a folder copy merges into an existing destination. When a folder
\* pair is processed whose destination directory already exists, the copy
\* does not fail because of that (only a write error can end it); and after every completed folder copy all
\* entries of the source folder are in the destination with the source's
\* content, while every file that was already in the tree and has no
\* counterpart in the source is still there with the content it had.
C17_FolderCopyMerges ==
    [][ (pc = "folders" /\ i <= NFolderPairs /\ folder_list[i] \in work.dirs) =>
          LET src == folder_list[i]
              dst == folder_out_pname(loc, folder_sort_dicts[i])
              entries == {f \in DOMAIN work.files : IsUnder(src, f)}
          IN  /\ (dst \in tree.dirs /\ pc' = "failed") => err' = "OSError"
              /\ copies' # copies =>
                    /\ \A f \in entries :
                          /\ Counterpart(src, dst, f) \in DOMAIN tree'.files
                          /\ tree'.files[Counterpart(src, dst, f)] = work.files[f]
                    /\ \A g \in DOMAIN tree.files :
                          g \notin {Counterpart(src, dst, f) : f \in entries} =>
                              /\ g \in DOMAIN tree'.files
                              /\ tree'.files[g] = tree.files[g] ]_vars

\* A folder was copied into the destination an earlier pipeline run left:
\* the old entry without counterpart is there, the one with a counterpart
\* has the new content
C17_Witness ==
    /\ runs = 1
    /\ \E k \in FolderCopies :
          /\ copies[k].dst = PreviousMelodic
          /\ join(PreviousMelodic, <<"old", ".txt">>) \in DOMAIN tree.files
          /\ tree.files[join(PreviousMelodic, <<"old", ".txt">>)] = "old"
          /\ tree.files[join(join(PreviousMelodic, <<"stats">>), <<"stats", ".txt">>)] = "st"

SlotDataType(slot) ==
    IF slot \in {"tpl_bold_mag_preproc", "tpl_bold_phs_preproc", "tpl_bold_dphi_preproc",
                 "tpl_seepiref_preproc", "tpl_sbref_preproc"} THEN <<"preproc">>
    ELSE IF slot \in {"tpl_t1w_head", "tpl_t2w_head", "tpl_t1w_brain", "tpl_t2w_brain",
                      "tpl_pseg", "tpl_dseg", "tpl_bmask"} THEN <<"atlas">>
    ELSE IF slot = "melodic_out_dir" THEN <<"melodic">>
    ELSE <<"qc">>

SlotFileType(slot) ==
    CASE slot = "tpl_bold_mag_tsfnr_roistats" -> <<"Text">>
      [] slot = "motion_csv" -> <<"CSV">>
      [] slot = "melodic_out_dir" -> <<"Folder">>
      [] OTHER -> <<"Image">>

Describes(rule, slot) ==
    rule.DataType = SlotDataType(slot) /\ rule.FileType = SlotFileType(slot)

\* C20: the file table of build_derivatives_wf has exactly as many records
\* as file slots are wired into the merge node and its i-th record
\* describes the i-th wired slot (preproc records with preproc images, the
\* Text record with the ROI statistics, the CSV record with motion_csv,
\* atlas records with the template and label images); likewise the folder
\* table and melodic_out_dir.
C20_TablesMatchWiredSlots ==
    /\ Len(file_sort_dicts) = Len(WiredFileSlots)
    /\ \A k \in 1..Min(Len(file_sort_dicts), Len(WiredFileSlots)) :
          Describes(file_sort_dicts[k], WiredFileSlots[k])
    /\ Len(folder_sort_dicts) = Len(WiredFolderSlots)
    /\ \A k \in 1..Min(Len(folder_sort_dicts), Len(WiredFolderSlots)) :
          Describes(folder_sort_dicts[k], WiredFolderSlots[k])

\* --------------------------------------------------------------------- C13
\* The paths of the derivatives tree (files) the copy c writes
WritePaths(c) ==
    IF c.kind = "file" THEN {c.dst}
    ELSE {Counterpart(c.src, c.dst, f) : f \in {g \in DOMAIN work.files : IsUnder(c.src, g)}}

\* C13 (as claimed): within one call of the sorter on the shipped rule
\* tables no two pairs write the same destination path, whatever the
\* artifact paths are; the per-pair copies therefore commute and any order
\* of execution gives the tree that list order gives.
C13_PairsWriteDisjointPaths ==
    \A k1, k2 \in 1..Len(copies) :
        k1 # k2 => WritePaths(copies[k1]) \cap WritePaths(copies[k2]) = {}

\* C13 (amended): on the shipped rule tables two pairs of one call write a
\* common path only if both are file pairs and either both rules are atlas
\* rules and the two artifacts have the same basename, or neither is an
\* atlas rule and the source suffix does not occur in the stem left after
\* stripping the extensions; all other pairs write disjoint paths and
\* commute. Where pairs do share a destination, list order decides: the
\* destination holds the content of the last pair in the list that wrote it.
C13_PairsCollideOnlyOnEqualNames ==
    /\ \A k1, k2 \in 1..Len(copies) :
          (k1 # k2 /\ WritePaths(copies[k1]) \cap WritePaths(copies[k2]) # {}) =>
              /\ copies[k1].kind = "file" /\ copies[k2].kind = "file"
              /\ \/ /\ AtlasType(RuleOf(copies[k1])) /\ AtlasType(RuleOf(copies[k2]))
                    /\ basename(copies[k1].src) = basename(copies[k2].src)
                 \/ /\ ~AtlasType(RuleOf(copies[k1])) /\ ~AtlasType(RuleOf(copies[k2]))
                    /\ ~Contains(loc.source_bname, loc.old_suffix)
    /\ \A k \in FileCopies :
          (\A k2 \in FileCopies : k2 > k => copies[k2].dst # copies[k].dst) =>
              /\ copies[k].dst \in DOMAIN tree.files
              /\ tree.files[copies[k].dst] = work.files[copies[k].src]

\* A call on the shipped tables has returned; two template images with the
\* same basename and different content went to the same path, which holds
\* the later one, while the renamed files all went to paths of their own
C13_Witness ==
    /\ pc = "done"
    /\ file_sort_dicts = ShippedFileRules
    /\ Len(copies) = Len(ShippedFileRules) + Len(ShippedFolderRules)
    /\ \E k1, k2 \in FileCopies :
          /\ k1 < k2
          /\ copies[k1].dst = copies[k2].dst
          /\ work.files[copies[k1].src] # work.files[copies[k2].src]
          /\ \A k3 \in FileCopies : k3 > k2 => copies[k3].dst # copies[k2].dst
          /\ tree.files[copies[k2].dst] = work.files[copies[k2].src]
    /\ \A k1, k2 \in FileCopies :
          (k1 # k2 /\ ~AtlasType(RuleOf(copies[k1]))) => copies[k1].dst # copies[k2].dst

\* --------------------------------------------------------------------- C14
\* <deriv_root>/sub-<subject> and <deriv_root>/sub-<subject>/ses-<session>
\* for the entities of the source file f
SubjectDirOf(f) == join(deriv_dir, <<"sub-">> \o parse_file_entities(f)["subject"])

SessionDirOf(f) == join(SubjectDirOf(f), <<"ses-">> \o parse_file_entities(f)["session"])

\* Two destinations with a path in common: one lies under the other
Overlap(p, q) == IsUnder(p, q) \/ IsUnder(q, p)

\* Every directory the step creates and every file it creates or changes
PathsTouched ==
    (tree'.dirs \ tree.dirs)
    \cup {f \in DOMAIN tree'.files : f \notin DOMAIN tree.files \/ tree'.files[f] # tree.files[f]}

\* C14 (as claimed): every path a call creates or writes lies under
\* <deriv_root>/sub-<subject>/ses-<session>/ for the subject and session of
\* the call's source file.
C14_EveryPathUnderSessionDir ==
    [][ (pc \in {"files", "folders"}) =>
          (\A p \in PathsTouched : IsUnder(SessionDirOf(source_file), p)) ]_vars

\* C14 (amended): every file a call writes and every directory it creates
\* lies under <deriv_root>/sub-<subject>/ses-<session> (that directory
\* included), except for the subject directory <deriv_root>/sub-<subject>,
\* which the call creates as an ancestor; and the destinations of two calls
\* whose (subject, session) pairs differ have no path in common (each copy
\* is compared, when it is made, with every copy made so far).
C14_EveryPathUnderSessionDirOrSubjectDir ==
    [][ /\ (pc \in {"files", "folders"}) =>
              (\A p \in PathsTouched :
                  IsUnder(SessionDirOf(source_file), p) \/ p = SubjectDirOf(source_file))
        /\ (\A r1 \in log' \ log, r2 \in log' :
              SessionDirOf(r1.source) # SessionDirOf(r2.source) => ~Overlap(r1.dst, r2.dst)) ]_vars

\* Two calls for the same subject and different sessions have made their
\* copies: the subject directory is the one path both needed
C14_Witness ==
    \E r1, r2 \in log :
        /\ SubjectDirOf(r1.source) = SubjectDirOf(r2.source)
        /\ SessionDirOf(r1.source) # SessionDirOf(r2.source)
        /\ IsUnder(SubjectDirOf(r1.source), r1.dst)
        /\ IsUnder(SubjectDirOf(r1.source), r2.dst)
        /\ SubjectDirOf(r1.source) \in tree.dirs

\* --------------------------------------------------------------------- C18
\* C18: creation of the subject/session/data-type directory is lazy,
\* idempotent and race-safe. A directory is in the tree only if it was
\* there before or lies on the way to the type directory of a pair some
\* process has reached; a makedirs call fails only when a regular file is
\* in the way, never because the directory or an ancestor already exists,
\* be it from before or made by the other process in the meantime; and
\* every call that has finished leaves its directory in place, once.
C18_DirectoryCreationLazyIdempotentRaceSafe ==
    /\ \A d \in tree.dirs :
          \/ d \in mk.tree0.dirs
          \/ \E p \in Procs : mk.proc[p].pc # "idle" /\ d \in Prefixes(mk.proc[p].target)
    /\ \A p \in Procs :
          /\ mk.proc[p].pc = "raised" =>
                \E q \in Prefixes(mk.proc[p].target) : q \in DOMAIN tree.files
          /\ mk.proc[p].pc = "done" =>
                /\ Prefixes(mk.proc[p].target) \subseteq tree.dirs
                /\ \A q \in Prefixes(mk.proc[p].target) : q \notin DOMAIN tree.files
    /\ tree.files = mk.tree0.files

\* Both processes made the same directory from an empty tree and have
\* finished; one of them met a directory the other had created after it
\* had seen it missing
C18_Witness ==
    /\ mk.tree0 = EmptyTree
    /\ \A p \in Procs : mk.proc[p].pc = "done"
    /\ mk.proc[1].target = mk.proc[2].target
    /\ \E p \in Procs : mk.proc[p].found
    /\ mk.proc[1].target \in tree.dirs

\* --------------------------------------------------------------------- C21
\* The file records followed by the folder records
AllRules == file_sort_dicts \o folder_sort_dicts

SamePair(r1, r2) == r1.DataType = r2.DataType /\ r1.NewSuffix = r2.NewSuffix

\* C21 (as claimed): in the tables of build_derivatives_wf, file and folder
\* records together, no two records share both new_suffix and data_type.
C21_RulesHaveDistinctPairs ==
    \A k1, k2 \in 1..Len(AllRules) : k1 # k2 => ~SamePair(AllRules[k1], AllRules[k2])

\* C21 (amended): in the tables of build_derivatives_wf two records share
\* both new_suffix and data_type only if they are atlas records (their pair
\* is ('', atlas)); every other record has a pair of its own.
C21_RulesHaveDistinctPairsExceptAtlas ==
    \A k1, k2 \in 1..Len(AllRules) :
        (k1 # k2 /\ SamePair(AllRules[k1], AllRules[k2])) =>
            /\ AllRules[k1].DataType = <<"atlas">>
            /\ AllRules[k1].NewSuffix = <<>>

\* A call on the shipped tables has used two atlas records with the same
\* pair and two other records with different pairs
C21_Witness ==
    /\ pc = "done"
    /\ \E k1, k2 \in FileCopies :
          /\ k1 # k2
          /\ SamePair(RuleOf(copies[k1]), RuleOf(copies[k2]))
          /\ RuleOf(copies[k1]).DataType = <<"atlas">>
    /\ \E k1, k2 \in FileCopies :
          /\ k1 # k2
          /\ RuleOf(copies[k1]).DataType = <<"qc">>
          /\ RuleOf(copies[k2]).DataType = <<"qc">>
          /\ ~SamePair(RuleOf(copies[k1]), RuleOf(copies[k2]))

\* --------------------------------------------------------------------- C22
\* The suffix of the source does not occur in the stem the call computed
SuffixNotInStem == ~Contains(loc.source_bname, loc.old_suffix)

\* C22: when the suffix of the source does not occur in the computed stem
\* the sorter does not fail over it: every renaming pair is copied to
\* <type_dir>/<unmodified stem><extension of the rule>, and a warning is
\* logged for that rule.
C22_MissingSuffixCopiesStemAndWarns ==
    \A k \in FileCopies :
        (SuffixNotInStem /\ ~AtlasType(RuleOf(copies[k]))) =>
            /\ copies[k].dst =
                  join(datatype_out_dname(loc, RuleOf(copies[k])),
                       loc.source_bname \o KindExt(RuleOf(copies[k]), loc.old_ext))
            /\ \E m \in 1..Len(messages(loc, copies[k].src, RuleOf(copies[k]))) :
                  messages(loc, copies[k].src, RuleOf(copies[k]))[m] = "warning"

\* --------------------------------------------------------------------- C23
\* What the two splitext calls took off the source basename
StrippedPart == SubSeq(SrcBase, Len(loc.source_bname) + 1, Len(SrcBase))

ImageKind(rule) == rule.FileType = <<"Image">>

\* C23: the part of the source basename the sorter strips to form the stem
\* (at most its last two dot-delimited components) is exactly the extension
\* it appends again for Image rules; hence an Image rule whose new suffix is
\* the suffix of the source gives the destination the basename of the
\* source, for sources ending in .nii and in .nii.gz alike.
C23_StrippedPartIsTheExtension ==
    (pc \in {"files", "folders", "done"}) =>
        /\ StrippedPart = loc.old_ext
        /\ \A k \in FileCopies :
              (/\ ImageKind(RuleOf(copies[k]))
               /\ ~AtlasType(RuleOf(copies[k]))
               /\ RuleOf(copies[k]).NewSuffix = loc.old_suffix) =>
                  basename(copies[k].dst) = SrcBase

\* --------------------------------------------------------------------- C24
\* C24 (as claimed): for every rule with a non-empty new suffix the
\* destination depends on the source file and the rule only: two artifacts
\* sorted under the same source and rule get the same destination.
C24_NonEmptySuffixIgnoresArtifact ==
    \A r1, r2 \in log :
        (r1.source = r2.source /\ r1.rule = r2.rule /\ r1.rule.NewSuffix # <<>>) =>
            r1.dst = r2.dst

\* C24 (amended): for every rule whose data type does not contain 'atlas',
\* whatever its new suffix, the destination depends on the source file and
\* the rule only: two artifacts sorted under the same source and rule get
\* the same destination. Atlas rules name the destination by the artifact.
C24_NonAtlasIgnoresArtifact ==
    \A r1, r2 \in log :
        /\ (r1.source = r2.source /\ r1.rule = r2.rule
            /\ ~Contains(r1.rule.DataType, <<"atlas">>)) => r1.dst = r2.dst
        /\ (r1.src # r2.src /\ basename(r1.src) # basename(r2.src)
            /\ r1.kind = "file" /\ r2.kind = "file"
            /\ Contains(r1.rule.DataType, <<"atlas">>) /\ r1.rule = r2.rule) => r1.dst # r2.dst

\* Two artifacts of different names were sorted under one source and one
\* renaming rule and went to the same destination
C24_Witness ==
    \E r1, r2 \in log :
        /\ r1.source = r2.source /\ r1.rule = r2.rule
        /\ r1.rule.DataType = <<"qc">> /\ r1.rule.NewSuffix # <<>>
        /\ basename(r1.src) # basename(r2.src)
        /\ r1.dst = r2.dst

C27_EmptySuffixIffAtlas ==
    /\ \A k \in 1..Len(file_sort_dicts) :
          /\ (file_sort_dicts[k].NewSuffix = <<>>) <=> (file_sort_dicts[k].DataType = <<"atlas">>)
          /\ IsAtlasCopy(file_sort_dicts[k]) <=> (file_sort_dicts[k].NewSuffix = <<>>)
    /\ \A k \in FileCopies :
          ~IsAtlasCopy(RuleOf(copies[k])) => RuleOf(copies[k]).NewSuffix # <<>>

\* A call on the shipped table has copied one artifact verbatim under an
\* atlas record without suffix and renamed another under a record with one
C27_Witness ==
    /\ pc = "done"
    /\ \E k \in FileCopies :
          /\ IsAtlasCopy(RuleOf(copies[k]))
          /\ RuleOf(copies[k]).NewSuffix = <<>>
          /\ basename(copies[k].dst) = basename(copies[k].src)
    /\ \E k \in FileCopies :
          /\ ~IsAtlasCopy(RuleOf(copies[k]))
          /\ RuleOf(copies[k]).NewSuffix # <<>>
          /\ Contains(basename(copies[k].dst), RuleOf(copies[k]).NewSuffix)

\* --------------------------------------------------------------------- C29
\* The stem the sorter computes for the source file f: lines 98-99
StemOf(f) == splitext(splitext(basename(f))[1])[1]

\* The basename of f has a dot before its last two dot components
DottedStem(f) == DotPositions(StemOf(f)) # {}

\* C29 (as claimed): two calls for two different source files of the same
\* subject and session, on the tables of build_derivatives_wf, never write
\* the same destination path.
C29_RunsOfASessionNeverShareADestination ==
    \A r1, r2 \in log :
        (r1.source # r2.source /\ SessionDirOf(r1.source) = SessionDirOf(r2.source)) =>
            ~Overlap(r1.dst, r2.dst)

\* C29 (amended): two calls for two different source files of the same
\* subject and session, on the tables of build_derivatives_wf, write the
\* same destination path only under atlas records, which copy the artifact
\* under its own name into the atlas directory the runs share, or when both
\* source names were cut to the same stem; renamed files and folders of
\* sources with different stems never share a path (each copy is compared,
\* when it is made, with every copy made so far).
C29_RunsOfASessionShareAtlasOnly ==
    [][ \A r1 \in log' \ log, r2 \in log' :
          (/\ r1.source # r2.source
           /\ SessionDirOf(r1.source) = SessionDirOf(r2.source)
           /\ Overlap(r1.dst, r2.dst)) =>
              \/ /\ r1.kind = "file" /\ r2.kind = "file"
                 /\ AtlasType(r1.rule) /\ AtlasType(r2.rule)
                 /\ basename(r1.dst) = basename(r1.src)
              \/ StemOf(r1.source) = StemOf(r2.source) ]_vars

\* Two runs of one session with different stems have been sorted: they wrote
\* the same atlas file, and their renamed files and folders all differ
C29_Witness ==
    \E s1, s2 \in PipelineSources :
        /\ s1 # s2
        /\ SessionDirOf(s1) = SessionDirOf(s2)
        /\ StemOf(s1) # StemOf(s2)
        /\ \E r1, r2 \in log :
              /\ r1.source = s1 /\ r2.source = s2
              /\ AtlasType(r1.rule) /\ r1.dst = r2.dst
        /\ \E r1, r2 \in log :
              /\ r1.source = s1 /\ r2.source = s2
              /\ r1.kind = "folder" /\ r2.kind = "folder"
              /\ ~Overlap(r1.dst, r2.dst)
        /\ \E r1, r2 \in log :
              /\ r1.source = s1 /\ r2.source = s2
              /\ r1.kind = "file" /\ r1.rule = r2.rule
              /\ ~AtlasType(r1.rule) /\ r1.dst # r2.dst

\* --------------------------------------------------------------------- C26
\* The type directory and the destination of the file pair the loop is at
TypeDirAt(k) == datatype_out_dname(loc, file_sort_dicts[k])

DstAt(k) == file_out_pname(loc, file_list[k], file_sort_dicts[k])

\* The copy of pair i fails in this step: its type directory could be made
CopyFailsHere ==
    /\ pc = "files" /\ i <= NFilePairs
    /\ pc' = "failed"
    /\ makedirs(tree, TypeDirAt(i)).err = ""

\* No later copy of this call went to the destination of copy j
LastWriter(j) == \A j2 \in FileCopies : j2 > j => copies[j2].dst # copies[j].dst

RECURSIVE FilesFrom(_, _)
FilesFrom(t, k) ==
    IF k > NFilePairs THEN [err |-> "", tree |-> t]
    ELSE LET md == makedirs(t, TypeDirAt(k))
             cp == copyfile(work, md.tree, file_list[k], DstAt(k))
         IN  IF md.err # "" THEN md
             ELSE IF cp.err # "" THEN cp
             ELSE FilesFrom(cp.tree, k + 1)

\* The same for the folder loop
RECURSIVE FoldersFrom(_, _)
FoldersFrom(t, k) ==
    IF k > NFolderPairs THEN [err |-> "", tree |-> t]
    ELSE LET md == makedirs(t, datatype_out_dname(loc, folder_sort_dicts[k]))
             cp == copytree(work, md.tree, folder_list[k],
                            folder_out_pname(loc, folder_sort_dicts[k]))
         IN  IF md.err # "" THEN md
             ELSE IF cp.err # "" THEN cp
             ELSE FoldersFrom(cp.tree, k + 1)

\* A whole uninterrupted call with the inputs of the call in progress,
\* started on the tree t
RunFrom(t) ==
    LET fl == FilesFrom(t, 1)
    IN  IF fl.err # "" THEN fl ELSE FoldersFrom(fl.tree, 1)

\* C25: retry convergence. Whatever a call does to the tree, be it a
\* complete copy or one broken off midway, an uninterrupted successful call
\* with the same inputs gives from the tree after the step what it gives
\* from the tree before it; and the tree a call returns with is the one such
\* a call gives. So a call that failed after any part of its copies,
\* followed by a call with the same inputs that completes, leaves the tree
\* of a single uninterrupted call from the initial tree.
C25_RetryConverges ==
    [][ ((pc \in {"files", "folders"}) /\ RunFrom(tree).err = "") =>
          /\ RunFrom(tree').err = ""
          /\ RunFrom(tree').tree = RunFrom(tree).tree
          /\ (pc' = "done") => (tree' = RunFrom(tree').tree) ]_vars

\* A call copied its first file and did not return; the next call, with the
\* same inputs, completed: the tree is the one a single uninterrupted call
\* gives from the initial tree, with nothing partly written
C25_Witness ==
    /\ pc = "done" /\ runs = 2 /\ Len(returned) = 1
    /\ NFilePairs = 2
    /\ \E r \in log :
          /\ r.call = 1 /\ r.kind = "file" /\ r.source = source_file
          /\ r.src = file_list[1] /\ r.rule = file_sort_dicts[1]
    /\ \A k \in 1..NFilePairs :
          \E r \in log : r.call = 2 /\ r.kind = "file" /\ r.src = file_list[k]
    /\ \E t0 \in {EmptyTree, PreviousTree} :
          /\ RunFrom(t0).err = ""
          /\ tree = RunFrom(t0).tree
          /\ tree # t0
    /\ \A f \in DOMAIN tree.files : tree.files[f] # "partial"

\* --------------------------------------------------------------------- C30
\* Every fieldmap has a metadata dictionary with a direction, and so has
\* the SBRef
DirectionsGiven ==
    /\ "PhaseEncodingDirection" \in DOMAIN seepiref.sbref_meta
    /\ \A k \in 1..Len(seepiref.seepi_mag) :
          /\ k <= Len(seepiref.seepi_meta)
          /\ "PhaseEncodingDirection" \in DOMAIN seepiref.seepi_meta[k]

\* The places in seepi_mag of the fieldmaps with the direction of the SBRef
Matching ==
    {k \in 1..Len(seepiref.seepi_mag) :
        /\ k <= Len(seepiref.seepi_meta)
        /\ "PhaseEncodingDirection" \in DOMAIN seepiref.seepi_meta[k]
        /\ "PhaseEncodingDirection" \in DOMAIN seepiref.sbref_meta
        /\ seepiref.seepi_meta[k].PhaseEncodingDirection =
              seepiref.sbref_meta.PhaseEncodingDirection}

LastOf(S) == CHOOSE k \in S : \A k2 \in S : k2 <= k

\* C30: SEEPIRef gives as seepi_mag_ref a fieldmap whose direction is that
\* of the SBRef. With a direction given for the SBRef and for every
\* fieldmap, no error is raised, and at the return the output is the last
\* matching fieldmap in list order (the only one if one matches) and is
\* unset if none matches; a fieldmap with another direction is never the
\* output, at any point of the call.
C30_LastMatchingFieldmapIsSelected ==
    /\ DirectionsGiven => seepiref.pc # "raised"
    /\ (DirectionsGiven /\ seepiref.pc = "returned") =>
          IF Matching = {}
          THEN seepiref.outputs.seepi_mag_ref = "Undefined"
          ELSE seepiref.outputs.seepi_mag_ref = seepiref.seepi_mag[LastOf(Matching)]
    /\ (seepiref.outputs.seepi_mag_ref # "Undefined") =>
          \E k \in Matching : seepiref.seepi_mag[k] = seepiref.outputs.seepi_mag_ref

\* Two fieldmaps had the direction of the SBRef: the call returned the
\* second of them
C30_Witness ==
    /\ seepiref.pc = "returned"
    /\ DirectionsGiven
    /\ Cardinality(Matching) >= 2
    /\ seepiref.outputs.seepi_mag_ref = seepiref.seepi_mag[LastOf(Matching)]
    /\ seepiref.outputs.seepi_mag_ref # seepiref.seepi_mag[1]

====
